---------------------------- MODULE Spec2Model ----------------------------
(***************************************************************************)
(* Decoding, classification and rendering of TPM 2.0 response codes, as    *)
(* implemented in src/response_code.rs of rust-tss-esapi.                  *)
(*                                                                         *)
(* A TSS2_RC is a 32-bit word.  It is modelled as its vector of bits       *)
(* (bit 0 = least significant), because the bitfield! views of the source  *)
(* read single bits and bit ranges of the word.  Strings are TLA+ strings; *)
(* format!("...{}...", x) is string concatenation with the decimal         *)
(* rendering of x.  The four sentences of the source that contain          *)
(* non-ASCII characters carry them as <U+XXXX>.                            *)
(***************************************************************************)
EXTENDS Integers, Sequences, FiniteSets

(***************************************************************************)
(* Bounds of the model.                                                    *)
(***************************************************************************)
\* Number of single high bits (12, 16, 20, ...) tried alone in the inputs.
MaxHighBit == 2

(***************************************************************************)
(* TSS2_RC: 32-bit words.                                                  *)
(***************************************************************************)
WordBits == 0..31

\* The word whose low 12 bits are those of lo and whose bits 12..31 are
\* exactly the positions in hp.
Word(lo, hp) ==
  [i \in WordBits |-> IF i < 12 THEN (lo \div (2 ^ i)) % 2 = 1 ELSE i \in hp]

HighPatterns == {{}, 12..31} \cup {{12 + 4 * k} : k \in 0..(MaxHighBit - 1)}

\* The response codes the transport hands over: every value of bits 0..11,
\* under each pattern of the bits above them.
RawCodes == {Word(lo, hp) : lo \in 0..4095, hp \in HighPatterns}

\* response_code == 0
IsZero(w) == \A i \in WordBits : ~w[i]

\* bitfield: a single-bit getter
Bit(w, i) == w[i]

\* bitfield: a getter of the bits msb..lsb, as an unsigned number
RECURSIVE BitRange(_, _, _)
BitRange(w, msb, lsb) ==
  IF msb < lsb THEN 0
  ELSE (IF w[lsb] THEN 1 ELSE 0) + 2 * BitRange(w, msb, lsb + 1)

\* struct ResponseCode
ResponseCode_format_selector(w) == Bit(w, 7)

\* struct FormatZeroResponseCode
\* error_number read from bits 8..0
FormatZero_error_number_Wide(w) == BitRange(w, 8, 0)

\* error_number read from bits 5..0
FormatZero_error_number_SixBits(w) == BitRange(w, 5, 0)
FormatZero_error_number(w) == BitRange(w, 6, 0)
FormatZero_format_selector(w) == Bit(w, 7)
\* version read from bit 9
FormatZero_version_Bit9(w) == Bit(w, 9)
FormatZero_version(w) == Bit(w, 8)
FormatZero_tcg_vendor_indicator(w) == Bit(w, 10)
FormatZero_severity(w) == Bit(w, 11)

\* struct FormatOneResponseCode
FormatOne_error_number(w) == BitRange(w, 5, 0)
FormatOne_parameter(w) == Bit(w, 6)
FormatOne_format_selector(w) == Bit(w, 7)
FormatOne_number(w) == BitRange(w, 11, 8)

(***************************************************************************)
(* enum Tss2ResponseCode: the two data variants wrap the whole word.       *)
(***************************************************************************)
Success == [tag |-> "Success"]
FormatZero(w) == [tag |-> "FormatZero", rc |-> w]
FormatOne(w) == [tag |-> "FormatOne", rc |-> w]

\* Option<T>
None == [tag |-> "None"]
Some(v) == [tag |-> "Some", val |-> v]
is_none(o) == o.tag = "None"

\* Option::unwrap panics on None.
UnwrapPanic == "panic: called Option::unwrap() on a None value"
unwrap(o) == IF o.tag = "None" THEN UnwrapPanic ELSE o.val

\* A match that no arm covers (the build rejects such a match).
NoMatchArm == "no match arm"

\* u32 subtraction a - b: the difference when it is in range.  Below zero the
\* build either panics (overflow checks on) or wraps to 2^32 + a - b; both
\* are the one outcome SubOverflow here.
SubOverflow == "attempt to subtract with overflow"
U32Sub(a, b) == IF a >= b THEN Some(a - b) ELSE None

\* format!("{}", n) of an unsigned number: its decimal digits.
Digit == <<"0", "1", "2", "3", "4", "5", "6", "7", "8", "9">>
RECURSIVE FormatU32(_)
FormatU32(n) ==
  IF n < 10 THEN Digit[n + 1]
  ELSE FormatU32(n \div 10) \o Digit[(n % 10) + 1]

(***************************************************************************)
(* impl Tss2ResponseCode                                                   *)
(***************************************************************************)
\* from_tss_rc with the zero test applied to the low 16 bits only
from_tss_rc_Truncated(response_code) ==
  IF \A i \in 0..15 : ~response_code[i] THEN Success
  ELSE IF ResponseCode_format_selector(response_code)
       THEN FormatOne(response_code)
       ELSE FormatZero(response_code)

\* from_tss_rc with the two arms of the selector test exchanged
from_tss_rc_Swapped(response_code) ==
  IF IsZero(response_code) THEN Success
  ELSE IF ResponseCode_format_selector(response_code)
       THEN FormatZero(response_code)
       ELSE FormatOne(response_code)

from_tss_rc(response_code) ==
  IF IsZero(response_code) THEN Success
  ELSE IF ResponseCode_format_selector(response_code)
       THEN FormatOne(response_code)
       ELSE FormatZero(response_code)

is_success(self) == self = Success

\* is_warning reading the version bit in place of the severity bit
is_warning_Version(self) ==
  CASE self.tag = "Success" -> FALSE
    [] self.tag = "FormatZero" -> FormatZero_version(self.rc)
    [] self.tag = "FormatOne" -> FALSE

is_warning(self) ==
  CASE self.tag = "Success" -> FALSE
    [] self.tag = "FormatZero" -> FormatZero_severity(self.rc)
    [] self.tag = "FormatOne" -> FALSE

\* error_number reading seven bits under both encodings
error_number_SevenBits(self) ==
  CASE self.tag = "Success" -> 0
    [] self.tag = "FormatZero" -> FormatZero_error_number(self.rc)
    [] self.tag = "FormatOne" -> FormatZero_error_number(self.rc)

error_number(self) ==
  CASE self.tag = "Success" -> 0
    [] self.tag = "FormatZero" -> FormatZero_error_number(self.rc)
    [] self.tag = "FormatOne" -> FormatOne_error_number(self.rc)

\* get_associated_number_message with the handle boundary one too low
get_associated_number_message_OffByOne(self) ==
  IF self.tag = "FormatOne"
  THEN IF FormatOne_parameter(self.rc)
       THEN "associated with parameter number "
              \o FormatU32(FormatOne_number(self.rc))
       ELSE IF FormatOne_number(self.rc) < 7
       THEN "associated with handle number "
              \o FormatU32(FormatOne_number(self.rc))
       ELSE LET d == U32Sub(FormatOne_number(self.rc), 8) IN
            IF is_none(d) THEN SubOverflow
            ELSE "associated with session number " \o FormatU32(d.val)
  ELSE "no associated message"

get_associated_number_message(self) ==
  IF self.tag = "FormatOne"
  THEN IF FormatOne_parameter(self.rc)
       THEN "associated with parameter number "
              \o FormatU32(FormatOne_number(self.rc))
       ELSE IF FormatOne_number(self.rc) <= 7
       THEN "associated with handle number "
              \o FormatU32(FormatOne_number(self.rc))
       ELSE LET d == U32Sub(FormatOne_number(self.rc), 8) IN
            IF is_none(d) THEN SubOverflow
            ELSE "associated with session number " \o FormatU32(d.val)
  ELSE "no associated message"

\* kind(): the match on error_number() of Format-Zero warnings
WarningKind(n) ==
    CASE n = 1 -> Some("ContextGap")
      [] n = 2 -> Some("ObjectMemory")
      [] n = 3 -> Some("SessionMemory")
      [] n = 4 -> Some("Memory")
      [] n = 5 -> Some("SessionHandles")
      [] n = 6 -> Some("ObjectHandles")
      [] n = 7 -> Some("Locality")
      [] n = 8 -> Some("Yielded")
      [] n = 9 -> Some("Canceled")
      [] n = 10 -> Some("Testing")
      [] n = 16 -> Some("ReferenceH0")
      [] n = 17 -> Some("ReferenceH1")
      [] n = 18 -> Some("ReferenceH2")
      [] n = 19 -> Some("ReferenceH3")
      [] n = 20 -> Some("ReferenceH4")
      [] n = 21 -> Some("ReferenceH5")
      [] n = 22 -> Some("ReferenceH6")
      [] n = 24 -> Some("ReferenceS0")
      [] n = 25 -> Some("ReferenceS1")
      [] n = 26 -> Some("ReferenceS2")
      [] n = 27 -> Some("ReferenceS3")
      [] n = 28 -> Some("ReferenceS4")
      [] n = 29 -> Some("ReferenceS5")
      [] n = 30 -> Some("ReferenceS6")
      [] n = 32 -> Some("NvRate")
      [] n = 33 -> Some("Lockout")
      [] n = 34 -> Some("Retry")
      [] n = 35 -> Some("NvUnavailable")
      [] OTHER -> None

\* kind(): the match on error_number() of Format-Zero errors
ErrorKind(n) ==
    CASE n = 0 -> Some("Initialize")
      [] n = 1 -> Some("Failure")
      [] n = 3 -> Some("Sequence")
      [] n = 11 -> Some("Private")
      [] n = 25 -> Some("Hmac")
      [] n = 32 -> Some("Disabled")
      [] n = 33 -> Some("Exclusive")
      [] n = 36 -> Some("AuthType")
      [] n = 37 -> Some("AuthMissing")
      [] n = 38 -> Some("Policy")
      [] n = 39 -> Some("Pcr")
      [] n = 40 -> Some("PcrChanged")
      [] n = 45 -> Some("Upgrade")
      [] n = 46 -> Some("TooManyContexts")
      [] n = 47 -> Some("AuthUnavailable")
      [] n = 48 -> Some("Reboot")
      [] n = 49 -> Some("Unbalanced")
      [] n = 66 -> Some("CommandSize")
      [] n = 67 -> Some("CommandCode")
      [] n = 68 -> Some("AuthSize")
      [] n = 69 -> Some("AuthContext")
      [] n = 70 -> Some("NvRange")
      [] n = 71 -> Some("NvSize")
      [] n = 72 -> Some("NvLocked")
      [] n = 73 -> Some("NvAuthorization")
      [] n = 74 -> Some("NvUninitialized")
      [] n = 75 -> Some("NvSpace")
      [] n = 76 -> Some("NvDefined")
      [] n = 80 -> Some("BadContext")
      [] n = 81 -> Some("CpHash")
      [] n = 82 -> Some("Parent")
      [] n = 83 -> Some("NeedsTest")
      [] n = 84 -> Some("NoResult")
      [] n = 85 -> Some("Sensitive")
      [] OTHER -> None

\* kind(): the match on error_number() of Format-One codes
FormatOneKind(n) ==
    CASE n = 1 -> Some("Asymmetric")
      [] n = 2 -> Some("Attributes")
      [] n = 3 -> Some("Hash")
      [] n = 4 -> Some("Value")
      [] n = 5 -> Some("Hierarchy")
      [] n = 7 -> Some("KeySize")
      [] n = 8 -> Some("Mgf")
      [] n = 9 -> Some("Mode")
      [] n = 10 -> Some("Type")
      [] n = 11 -> Some("Handle")
      [] n = 12 -> Some("Kdf")
      [] n = 13 -> Some("Range")
      [] n = 14 -> Some("AuthFail")
      [] n = 15 -> Some("Nonce")
      [] n = 16 -> Some("Pp")
      [] n = 18 -> Some("Scheme")
      [] n = 21 -> Some("Size")
      [] n = 22 -> Some("Symmetric")
      [] n = 23 -> Some("Tag")
      [] n = 24 -> Some("Selector")
      [] n = 26 -> Some("Insufficient")
      [] n = 27 -> Some("Signature")
      [] n = 28 -> Some("Key")
      [] n = 29 -> Some("PolicyFail")
      [] n = 31 -> Some("Integrity")
      [] n = 32 -> Some("Ticket")
      [] n = 33 -> Some("ReservedBits")
      [] n = 34 -> Some("BadAuth")
      [] n = 35 -> Some("Expired")
      [] n = 36 -> Some("PolicyCc")
      [] n = 37 -> Some("Binding")
      [] n = 38 -> Some("Curve")
      [] n = 39 -> Some("EccPoint")
      [] OTHER -> None

\* kind() where a Format-One code is looked up in the Format-Zero error table
kind_SharedTable(self) ==
  CASE self.tag = "Success" -> Some("Success")
    [] self.tag = "FormatZero" ->
         IF FormatZero_tcg_vendor_indicator(self.rc)
         THEN Some("TpmVendorSpecific")
         ELSE IF is_warning(self)
         THEN WarningKind(error_number(self))
         ELSE ErrorKind(error_number(self))
    [] self.tag = "FormatOne" -> ErrorKind(error_number(self))

\* kind() where a number missing from the warning table is looked up in the
\* error table
kind_FallThrough(self) ==
  CASE self.tag = "Success" -> Some("Success")
    [] self.tag = "FormatZero" ->
         IF FormatZero_tcg_vendor_indicator(self.rc)
         THEN Some("TpmVendorSpecific")
         ELSE IF is_warning(self) /\ ~is_none(WarningKind(error_number(self)))
         THEN WarningKind(error_number(self))
         ELSE ErrorKind(error_number(self))
    [] self.tag = "FormatOne" -> FormatOneKind(error_number(self))

\* kind() with the severity test ahead of the vendor test
kind_SeverityFirst(self) ==
  CASE self.tag = "Success" -> Some("Success")
    [] self.tag = "FormatZero" ->
         IF is_warning(self)
         THEN WarningKind(error_number(self))
         ELSE IF FormatZero_tcg_vendor_indicator(self.rc)
         THEN Some("TpmVendorSpecific")
         ELSE ErrorKind(error_number(self))
    [] self.tag = "FormatOne" -> FormatOneKind(error_number(self))

kind(self) ==
  CASE self.tag = "Success" -> Some("Success")
    [] self.tag = "FormatZero" ->
         IF FormatZero_tcg_vendor_indicator(self.rc)
         THEN Some("TpmVendorSpecific")
         ELSE IF is_warning(self)
         THEN WarningKind(error_number(self))
         ELSE ErrorKind(error_number(self))
    [] self.tag = "FormatOne" -> FormatOneKind(error_number(self))

(***************************************************************************)
(* impl Display for Tss2ResponseCode                                       *)
(***************************************************************************)
\* The arms of the Format-Zero kinds (errors, then warnings): one literal
\* sentence each.
FormatZeroSentence ==
  [
     Initialize |->
       "TPM not initialized by TPM2_Startup or already initialized",
     Failure |->
       "commands not being accepted because of a TPM failure. NOTE: This may be returned by TPM2_GetTestResult() as the testResultparameter",
     Sequence |->
       "improper use of a sequence handle",
     Private |->
       "not currently used",
     Hmac |->
       "not currently used",
     Disabled |->
       "the command is disabled",
     Exclusive |->
       "command failed because audit sequence required exclusivity",
     AuthType |->
       "authorization handle is not correct for command",
     AuthMissing |->
       "command requires an authorization session for handle and it is not present",
     Policy |->
       "policy failure in math operation or an invalid authPolicy value",
     Pcr |->
       "PCR check fail",
     PcrChanged |->
       "PCR have changed since checked",
     Upgrade |->
       "for all commands other than TPM2_FieldUpgradeData(), this code indicates that the TPM is in field upgrade mode; for TPM2_FieldUpgradeData(), this code indicates that the TPM is not in field upgrade mode",
     TooManyContexts |->
       "context ID counter is at maximum",
     AuthUnavailable |->
       "authValue or authPolicy is not available for selected entity",
     Reboot |->
       "a _TPM_Init and Startup(CLEAR) is required before the TPM can resume operation",
     Unbalanced |->
       "the protection algorithms (hash and symmetric) are not reasonably balanced. The digest size of the hash must be larger than the key size of the symmetric algorithm",
     CommandSize |->
       "command commandSizevalue is inconsistent with contents of the command buffer; either the size is not the same as the octets loaded by the hardware interface layer or the value is not large enough to hold a command header",
     CommandCode |->
       "command code not supported",
     AuthSize |->
       "the value of authorizationSizeis out of range or the number of octets in the Authorization Area is greater than required",
     AuthContext |->
       "use of an authorization session with a context command or another command that cannot have an authorization session",
     NvRange |->
       "NV offset+size is out of range",
     NvSize |->
       "Requested allocation size is larger than allowed",
     NvLocked |->
       "NV access locked",
     NvAuthorization |->
       "NV access authorization fails in command actions (this failure does not affect lockout.action)",
     NvUninitialized |->
       "an NV Index is used before being initialized or the state saved by TPM2_Shutdown(STATE) could not be restored",
     NvSpace |->
       "insufficient space for NV allocation",
     NvDefined |->
       "NV Index or persistent object already defined",
     BadContext |->
       "context in TPM2_ContextLoad() is not valid",
     CpHash |->
       "cpHash value already set or not correct for use",
     Parent |->
       "handle for parent is not a valid parent",
     NeedsTest |->
       "some function needs testing.",
     NoResult |->
       "returned when an internal function cannot process a request due to an unspecified problem. This code is usually related to invalid parameters that are not properly filtered by the input unmarshaling code.",
     Sensitive |->
       "the sensitive area did not unmarshal correctly after decryption <U+2013> this code is used in lieu of the other unmarshaling errors so that an attacker cannot determine where the unmarshaling error occurred",
     ContextGap |->
       "gap for context ID is too large",
     ObjectMemory |->
       "out of memory for object contexts",
     SessionMemory |->
       "out of memory for session contexts",
     Memory |->
       "out of shared object/session memory or need space for internal operations",
     SessionHandles |->
       "out of session handles <U+2013> a session must be flushed before a new session may be created",
     ObjectHandles |->
       "out of object handles <U+2013> the handle space for objects is depleted and a reboot is required. NOTE 1: This cannot occur on the reference implementation. NOTE 2: There is no reason why an implementation would implement a design that would delete handle space. Platform specifications are encouraged to forbid it.",
     Locality |->
       "bad locality",
     Yielded |->
       "the TPM has suspended operation on the command; forward progress was made and the command may be retried. See TPM 2.0 Part 1, <U+201C>Multi-tasking.<U+201D> NOTE: This cannot occur on the reference implementation.",
     Canceled |->
       "the command was canceled",
     Testing |->
       "TPM is performing self-tests",
     ReferenceH0 |->
       "the 1st handle in the handle area references a transient object or session that is not loaded",
     ReferenceH1 |->
       "the 2nd handle in the handle area references a transient object or session that is not loaded",
     ReferenceH2 |->
       "the 3rd handle in the handle area references a transient object or session that is not loaded",
     ReferenceH3 |->
       "the 4th handle in the handle area references a transient object or session that is not loaded",
     ReferenceH4 |->
       "the 5th handle in the handle area references a transient object or session that is not loaded",
     ReferenceH5 |->
       "the 6th handle in the handle area references a transient object or session that is not loaded",
     ReferenceH6 |->
       "the 7th handle in the handle area references a transient object or session that is not loaded",
     ReferenceS0 |->
       "the 1st authorization session handle references a session that is not loaded",
     ReferenceS1 |->
       "the 2nd authorization session handle references a session that is not loaded",
     ReferenceS2 |->
       "the 3rd authorization session handle references a session that is not loaded",
     ReferenceS3 |->
       "the 4th authorization session handle references a session that is not loaded",
     ReferenceS4 |->
       "the 5th session handle references a session that is not loaded",
     ReferenceS5 |->
       "the 6th session handle references a session that is not loaded",
     ReferenceS6 |->
       "the 7th authorization session handle references a session that is not loaded",
     NvRate |->
       "the TPM is rate-limiting accesses to prevent wearout of NV",
     Lockout |->
       "authorizations for objects subject to DA protection are not allowed at this time because the TPM is in DA lockout mode",
     Retry |->
       "the TPM was not able to start the command",
     NvUnavailable |->
       "the command may require writing of NV and NV is not current accessible"
  ]

\* The arms of the Format-One kinds: the literal up to and including the
\* opening bracket of "({})".
FormatOneSentence ==
  [
     Asymmetric |->
       "asymmetric algorithm not supported or not correct (",
     Attributes |->
       "inconsistent attributes (",
     Hash |->
       "hash algorithm not supported or not appropriate (",
     Value |->
       "value is out of range or is not correct for the context (",
     Hierarchy |->
       "hierarchy is not enabled or is not correct for the use (",
     KeySize |->
       "key size is not supported (",
     Mgf |->
       "mask generation function not supported (",
     Mode |->
       "mode of operation not supported (",
     Type |->
       "the type of the value is not appropriate for the use (",
     Handle |->
       "the handle is not correct for the use (",
     Kdf |->
       "unsupported key derivation function or function not appropriate for use (",
     Range |->
       "value was out of allowed range. (",
     AuthFail |->
       "the authorization HMAC check failed and DA counter incremented (",
     Nonce |->
       "invalid nonce size or nonce value mismatch (",
     Pp |->
       "authorization requires assertion of PP (",
     Scheme |->
       "unsupported or incompatible scheme (",
     Size |->
       "structure is the wrong size (",
     Symmetric |->
       "unsupported symmetric algorithm or key size, or not appropriate for instance (",
     Tag |->
       "incorrect structure tag (",
     Selector |->
       "union selector is incorrect (",
     Insufficient |->
       "the TPM was unable to unmarshal a value because there were not enough octets in the input buffer (",
     Signature |->
       "the signature is not valid (",
     Key |->
       "key fields are not compatible with the selected use (",
     PolicyFail |->
       "a policy check failed (",
     Integrity |->
       "integrity check failed (",
     Ticket |->
       "invalid ticket  (",
     ReservedBits |->
       "reserved bits not set to zero as required (",
     BadAuth |->
       "authorization failure without DA implications (",
     Expired |->
       "the policy has expired (",
     PolicyCc |->
       "the command Code in the policy is not the command Code of the command or the command code in a policy command references a command that is not implemented (",
     Binding |->
       "public and sensitive portions of an object are not cryptographically bound (",
     Curve |->
       "curve not supported (",
     EccPoint |->
       "point is not on the required curve ("
  ]

\* fmt where the arm of PcrChanged carries the sentence of Pcr
fmt_PcrSentenceTwice(self) ==
  LET kind_ == kind(self) IN
  IF is_none(kind_) THEN "response code not recognized"
  ELSE LET k == unwrap(kind(self)) IN
    CASE k = UnwrapPanic -> UnwrapPanic
      [] k = "Success" -> "success"
      [] k = "TpmVendorSpecific" ->
           "vendor specific error: " \o FormatU32(error_number(self))
      [] k = "PcrChanged" -> FormatZeroSentence["Pcr"]
      [] k \in DOMAIN FormatZeroSentence -> FormatZeroSentence[k]
      [] k \in DOMAIN FormatOneSentence ->
           FormatOneSentence[k] \o get_associated_number_message(self) \o ")"
      [] OTHER -> NoMatchArm

\* fmt without the early return on an unrecognized code
fmt_NoNoneCheck(self) ==
  LET k == unwrap(kind(self)) IN
    CASE k = UnwrapPanic -> UnwrapPanic
      [] k = "Success" -> "success"
      [] k = "TpmVendorSpecific" ->
           "vendor specific error: " \o FormatU32(error_number(self))
      [] k \in DOMAIN FormatZeroSentence -> FormatZeroSentence[k]
      [] k \in DOMAIN FormatOneSentence ->
           FormatOneSentence[k] \o get_associated_number_message(self) \o ")"
      [] OTHER -> NoMatchArm

fmt(self) ==
  LET kind_ == kind(self) IN
  IF is_none(kind_) THEN "response code not recognized"
  ELSE LET k == unwrap(kind(self)) IN
    CASE k = UnwrapPanic -> UnwrapPanic
      [] k = "Success" -> "success"
      [] k = "TpmVendorSpecific" ->
           "vendor specific error: " \o FormatU32(error_number(self))
      [] k \in DOMAIN FormatZeroSentence -> FormatZeroSentence[k]
      [] k \in DOMAIN FormatOneSentence ->
           FormatOneSentence[k] \o get_associated_number_message(self) \o ")"
      [] OTHER -> NoMatchArm

(***************************************************************************)
(* enum WrapperErrorKind, enum Error                                       *)
(***************************************************************************)
WrapperErrorKind == {"WrongParamSize", "ParamsMissing", "InconsistentParams"}

WrapperErrorKind_fmt(self) ==
  CASE self = "WrongParamSize" -> "parameter provided is of the wrong size"
    [] self = "ParamsMissing" ->
         "some of the required parameters were not provided"
    [] self = "InconsistentParams" ->
         "the provided parameters have inconsistent values or variants"

WrapperError(k) == [tag |-> "WrapperError", kind |-> k]
Tss2Error(c) == [tag |-> "Tss2Error", code |-> c]

\* Equality of two codes by variant and accessor values
Tss2ResponseCode_eq_Fields(a, b) ==
  /\ a.tag = b.tag
  /\ a.tag = "FormatZero" =>
       /\ FormatZero_error_number(a.rc) = FormatZero_error_number(b.rc)
       /\ FormatZero_version(a.rc) = FormatZero_version(b.rc)
       /\ FormatZero_tcg_vendor_indicator(a.rc)
            = FormatZero_tcg_vendor_indicator(b.rc)
       /\ FormatZero_severity(a.rc) = FormatZero_severity(b.rc)
  /\ a.tag = "FormatOne" =>
       /\ FormatOne_error_number(a.rc) = FormatOne_error_number(b.rc)
       /\ FormatOne_parameter(a.rc) = FormatOne_parameter(b.rc)
       /\ FormatOne_number(a.rc) = FormatOne_number(b.rc)

\* derive(PartialEq) of Tss2ResponseCode: the same variant, and for the data
\* variants equal wrapped structs, which in turn derive PartialEq on the one
\* TSS2_RC they hold.
Tss2ResponseCode_eq(a, b) ==
  /\ a.tag = b.tag
  /\ a.tag = "Success" \/ a.rc = b.rc

\* derive(PartialEq) of Error
Error_eq(a, b) ==
  /\ a.tag = b.tag
  /\ CASE a.tag = "WrapperError" -> a.kind = b.kind
       [] a.tag = "Tss2Error" -> Tss2ResponseCode_eq(a.code, b.code)

Error_from_tss_rc(rc) == Tss2Error(from_tss_rc(rc))

local_error(k) == WrapperError(k)

\* Error::is_success answering true for a WrapperError
Error_is_success_WrapperTrue(self) ==
  IF self.tag = "Tss2Error" THEN is_success(self.code) ELSE TRUE

Error_is_success(self) ==
  IF self.tag = "Tss2Error" THEN is_success(self.code) ELSE FALSE

Error_fmt(self) ==
  CASE self.tag = "WrapperError" -> WrapperErrorKind_fmt(self.kind)
    [] self.tag = "Tss2Error" -> fmt(self.code)

(***************************************************************************)
(* The state: one call of the wrapper.  It either fails the validation of  *)
(* its parameters, or reaches the TPM and gets a response code back; the   *)
(* caller then builds the Error value and may ask for its kind, its        *)
(* success predicate and its rendering.                                    *)
(***************************************************************************)
VARIABLES
  outcome,            \* what the call produced: a response code or a rejection
  error,              \* the Error built from it
  kind_result,        \* what kind() returned
  is_success_result,  \* what Error::is_success() returned
  fmt_result          \* what Display produced

vars == <<outcome, error, kind_result, is_success_result, fmt_result>>

NotYet == [tag |-> "NotYet"]
Returned(v) == [tag |-> "Returned", val |-> v]

Response(w) == [tag |-> "Response", response_code |-> w]
Rejected(k) == [tag |-> "Rejected", kind |-> k]

Init ==
  /\ outcome \in {Response(w) : w \in RawCodes}
                   \cup {Rejected(k) : k \in WrapperErrorKind}
  /\ error = NotYet
  /\ kind_result = NotYet
  /\ is_success_result = NotYet
  /\ fmt_result = NotYet

\* Error::from_tss_rc on the received response code
ErrorFromTssRc ==
  /\ error = NotYet
  /\ outcome.tag = "Response"
  /\ error' = Error_from_tss_rc(outcome.response_code)
  /\ UNCHANGED <<outcome, kind_result, is_success_result, fmt_result>>

\* Error::local_error on a failed validation
LocalError ==
  /\ error = NotYet
  /\ outcome.tag = "Rejected"
  /\ error' = local_error(outcome.kind)
  /\ UNCHANGED <<outcome, kind_result, is_success_result, fmt_result>>

\* Tss2ResponseCode::kind on the code a Tss2Error wraps
Kind ==
  /\ error.tag = "Tss2Error"
  /\ kind_result = NotYet
  /\ kind_result' = Returned(kind(error.code))
  /\ UNCHANGED <<outcome, error, is_success_result, fmt_result>>

\* Error::is_success
IsSuccess ==
  /\ error.tag \in {"Tss2Error", "WrapperError"}
  /\ is_success_result = NotYet
  /\ is_success_result' = Returned(Error_is_success(error))
  /\ UNCHANGED <<outcome, error, kind_result, fmt_result>>

\* Display for Error
Fmt ==
  /\ error.tag \in {"Tss2Error", "WrapperError"}
  /\ fmt_result = NotYet
  /\ fmt_result' = Returned(Error_fmt(error))
  /\ UNCHANGED <<outcome, error, kind_result, is_success_result>>

Next == ErrorFromTssRc \/ LocalError \/ Kind \/ IsSuccess \/ Fmt

Spec == Init /\ [][Next]_vars

(***************************************************************************)
(* Vocabulary of the properties.                                           *)
(***************************************************************************)
\* The caller holds a Tss2Error decoded from the received response code.
Decoded == error.tag = "Tss2Error"
Raw == outcome.response_code
Code == error.code

KindReturned == kind_result.tag = "Returned"
FmtReturned == fmt_result.tag = "Returned"
IsSuccessReturned == is_success_result.tag = "Returned"

\* The word of value n < 4096 (bits 12..31 clear).
Low(n) == Word(n, {})

\* The number a set of bits of the word stands for, read off bit by bit.
Value(w, lsb, width) ==
  LET b(i) == IF w[lsb + i] THEN 2 ^ i ELSE 0
      RECURSIVE sum(_)
      sum(i) == IF i = width THEN 0 ELSE b(i) + sum(i + 1)
  IN sum(0)

\* Decimal numerals of the field values, written out.
Decimal(n) ==
  IF n < 10 THEN <<"0", "1", "2", "3", "4", "5", "6", "7", "8", "9">>[n + 1]
  ELSE IF n < 100
  THEN <<"1", "2", "3", "4", "5", "6", "7", "8", "9">>[n \div 10]
         \o <<"0", "1", "2", "3", "4", "5", "6", "7", "8", "9">>[(n % 10) + 1]
  ELSE "1" \o <<"0", "1", "2">>[((n \div 10) % 10) + 1]
         \o <<"0", "1", "2", "3", "4", "5", "6", "7", "8", "9">>[(n % 10) + 1]

FormatZeroCode == Decoded /\ ~IsZero(Raw) /\ ~Raw[7]
FormatOneCode == Decoded /\ ~IsZero(Raw) /\ Raw[7]

(***************************************************************************)
(* C1                                                                      *)
(***************************************************************************)
\* C1: for every raw code, raw == 0 exactly when it decodes to the Success
\* variant, exactly when Tss2ResponseCode::is_success is true, and exactly
\* when Error::is_success of the Error built from it returned true.
C1_SuccessIffZero ==
  Decoded =>
    /\ IsZero(Raw) <=> (Code.tag = "Success")
    /\ (Code.tag = "Success") <=> is_success(Code)
    /\ IsSuccessReturned => (is_success_result.val <=> IsZero(Raw))

\* The zero code was decoded and reported as a success.
C1_Witness ==
  /\ Decoded /\ IsZero(Raw) /\ Code = Success
  /\ is_success_result = Returned(TRUE)

(***************************************************************************)
(* C2                                                                      *)
(***************************************************************************)
\* C2: every nonzero raw code decodes as exactly one of FormatZero and
\* FormatOne, and bit 7 alone decides which: clear gives FormatZero, set
\* gives FormatOne.
C2_SelectorDecides ==
  (Decoded /\ ~IsZero(Raw)) =>
    /\ Code.tag \in {"FormatZero", "FormatOne"}
    /\ (Code.tag = "FormatOne") <=> Raw[7]
    /\ (Code.tag = "FormatZero") <=> ~Raw[7]
    /\ Code.rc = Raw

\* A code with bit 7 set and bits 0..6, 8..31 all set too was decoded.
C2_Witness ==
  /\ Decoded /\ (\A i \in WordBits : Raw[i])
  /\ Code.tag = "FormatOne"

(***************************************************************************)
(* C3                                                                      *)
(***************************************************************************)
\* C3: a Format-Zero code with vendor_indicator (bit 10) set has kind
\* TpmVendorSpecific whatever bit 11 and bits 0..6 are, and is displayed as
\* "vendor specific error: N", N being the number in bits 0..6.
C3_VendorSpecific ==
  (FormatZeroCode /\ Raw[10]) =>
    /\ KindReturned => kind_result.val = Some("TpmVendorSpecific")
    /\ FmtReturned =>
         /\ fmt_result.val = "vendor specific error: " \o Decimal(Value(Raw, 0, 7))
         /\ Raw = Low(1024) => fmt_result.val = "vendor specific error: 0"
         /\ Raw = Low(3199) => fmt_result.val = "vendor specific error: 127"

\* A vendor code with severity set and error number 127 (0xC7F) was
\* classified and displayed.
C3_Witness ==
  /\ FormatZeroCode /\ Raw = Low(3199)
  /\ KindReturned /\ FmtReturned

(***************************************************************************)
(* C4                                                                      *)
(***************************************************************************)
EndsWith(s, suffix) ==
  /\ Len(s) >= Len(suffix)
  /\ SubSeq(s, Len(s) - Len(suffix) + 1, Len(s)) = suffix

\* C4: the associated-number phrase of a Format-One code is "parameter number
\* n" when bit 6 is set (n in 0..15), else "handle number n" when n <= 7,
\* else "session number n - 8"; 7 is handle 7, 8 is session 0, the session
\* number is in 0..7 and the subtraction never goes below zero.  A
\* recognized code is displayed with that phrase in brackets at its end.
C4_AssociatedNumber ==
  FormatOneCode =>
    LET n == Value(Raw, 8, 4)
        expected ==
          IF Raw[6] THEN "associated with parameter number " \o Decimal(n)
          ELSE IF n <= 7 THEN "associated with handle number " \o Decimal(n)
          ELSE "associated with session number " \o Decimal(n - 8)
        msg == get_associated_number_message(Code)
    IN /\ msg = expected
       /\ msg # SubOverflow
       /\ (~Raw[6] /\ n = 7) => msg = "associated with handle number 7"
       /\ (~Raw[6] /\ n = 8) => msg = "associated with session number 0"
       /\ (Raw[6] /\ n = 15) => msg = "associated with parameter number 15"
       /\ (~Raw[6] /\ n > 7) =>
            \E j \in 0..7 : msg = "associated with session number " \o Decimal(j)
       /\ (FmtReturned /\ kind(Code) # None) =>
            EndsWith(fmt_result.val, "(" \o expected \o ")")

\* 0x89B (Signature, number 8, not a parameter) was displayed with session
\* number 0.
C4_Witness ==
  /\ FormatOneCode /\ Raw = Low(2203)
  /\ fmt_result =
       Returned("the signature is not valid (associated with session number 0)")

(***************************************************************************)
(* C5                                                                      *)
(***************************************************************************)
\* C5: a Format-Zero code with vendor_indicator clear is classified by its
\* error_number in the warning table when severity (bit 11) is set and in the
\* error table when it is clear; error_number 3 is SessionMemory as a warning
\* and Sequence as an error, and 0x803 is displayed as "out of memory for
\* session contexts".
C5_SeveritySelectsTable ==
  (FormatZeroCode /\ ~Raw[10]) =>
    LET n == Value(Raw, 0, 7) IN
    /\ KindReturned =>
         /\ kind_result.val = IF Raw[11] THEN WarningKind(n) ELSE ErrorKind(n)
         /\ (n = 3 /\ Raw[11]) => kind_result.val = Some("SessionMemory")
         /\ (n = 3 /\ ~Raw[11]) => kind_result.val = Some("Sequence")
    /\ (FmtReturned /\ n = 3 /\ Raw[11]) =>
         fmt_result.val = "out of memory for session contexts"
    /\ (FmtReturned /\ n = 3 /\ ~Raw[11]) =>
         fmt_result.val = "improper use of a sequence handle"

\* 0x803 was classified as SessionMemory and displayed.
C5_Witness ==
  /\ FormatZeroCode /\ Raw = Low(2051)
  /\ kind_result = Returned(Some("SessionMemory"))
  /\ fmt_result = Returned("out of memory for session contexts")

(***************************************************************************)
(* C6                                                                      *)
(***************************************************************************)
\* What is left of a display string when the bracketed phrase is cut off its
\* end.
Description(s, phrase) == SubSeq(s, 1, Len(s) - Len(" (" \o phrase \o ")"))

\* C6: the kind of a Format-One code is the entry of its 6-bit error_number
\* in the Format-One table, the same as for the code with that error_number,
\* is_parameter clear and number 0; a recognized code is displayed as the
\* fixed description of its kind followed by " (" phrase ")".
C6_FormatOneKindAndDisplay ==
  FormatOneCode =>
    LET n == Value(Raw, 0, 6)
        plain == FormatOne(Low(128 + n))
        phrase == get_associated_number_message(Code)
    IN
    /\ KindReturned =>
         /\ kind_result.val = FormatOneKind(n)
         /\ kind_result.val = kind(plain)
         /\ Raw = Low(907) => kind_result.val = Some("Handle")
         /\ Raw = Low(2459) => kind_result.val = Some("Signature")
         /\ Raw = Low(708) => kind_result.val = Some("Value")
    /\ (FmtReturned /\ FormatOneKind(n) # None) =>
         /\ EndsWith(fmt_result.val, " (" \o phrase \o ")")
         /\ Description(fmt_result.val, phrase)
              = Description(fmt(plain), "associated with handle number 0")
         /\ Raw = Low(907) => fmt_result.val =
              "the handle is not correct for the use (associated with handle number 3)"
         /\ Raw = Low(2459) => fmt_result.val =
              "the signature is not valid (associated with session number 1)"
         /\ Raw = Low(708) => fmt_result.val =
              "value is out of range or is not correct for the context (associated with parameter number 2)"

\* 0x2C4 (Value, parameter 2) was classified and displayed.
C6_Witness ==
  /\ FormatOneCode /\ Raw = Low(708)
  /\ kind_result = Returned(Some("Value"))
  /\ FmtReturned

(***************************************************************************)
(* C7                                                                      *)
(***************************************************************************)
\* The error_number of a nonzero code has no entry in the table that bit 7
\* and severity select for it.
Unlisted ==
  IF Raw[7] THEN FormatOneKind(Value(Raw, 0, 6)) = None
  ELSE IF Raw[11] THEN WarningKind(Value(Raw, 0, 7)) = None
  ELSE ErrorKind(Value(Raw, 0, 7)) = None

NotRecognized ==
  /\ KindReturned => kind_result.val = None
  /\ FmtReturned => fmt_result.val = "response code not recognized"

\* C7 as stated: every nonzero code whose error_number has no entry in the
\* table of its namespace (warning, error or Format-One table) has kind None
\* and is displayed as "response code not recognized", whatever its other
\* fields are.
C7_AsStated ==
  (Decoded /\ ~IsZero(Raw) /\ Unlisted) => NotRecognized

\* C7, amended: the same for every nonzero code that is Format-One, or
\* Format-Zero with vendor_indicator clear.
C7_Unrecognized ==
  (Decoded /\ ~IsZero(Raw) /\ Unlisted /\ (Raw[7] \/ ~Raw[10])) => NotRecognized

\* 0x87F (warning, error_number 127, not in the warning table) was classified
\* as None and displayed as not recognized.
C7_Witness ==
  /\ Decoded /\ Raw = Low(2175)
  /\ kind_result = Returned(None)
  /\ fmt_result = Returned("response code not recognized")

(***************************************************************************)
(* C8                                                                      *)
(***************************************************************************)
NumberBit(n, i) == (n \div (2 ^ i)) % 2 = 1

\* The word built from Format-Zero field values: bits 0-6, 8, 10, 11, bit 7
\* clear.
PackFormatZero(en, ver, vend, sev) ==
  [i \in WordBits |->
     CASE i \in 0..6 -> NumberBit(en, i)
       [] i = 8 -> ver
       [] i = 10 -> vend
       [] i = 11 -> sev
       [] OTHER -> FALSE]

\* The word built from Format-One field values: bits 0-5, 6, 8-11, bit 7 set.
PackFormatOne(en, par, num) ==
  [i \in WordBits |->
     CASE i \in 0..5 -> NumberBit(en, i)
       [] i = 6 -> par
       [] i = 7 -> TRUE
       [] i \in 8..11 -> NumberBit(num, i - 8)
       [] OTHER -> FALSE]

\* A response code that is known to be packed from given field values.
PackedZero(en, ver, vend, sev) ==
  [tag |-> "Response",
   response_code |-> PackFormatZero(en, ver, vend, sev),
   fields |-> [format |-> "FormatZero", error_number |-> en, version |-> ver,
               vendor_indicator |-> vend, severity |-> sev]]

PackedOne(en, par, num) ==
  [tag |-> "Response",
   response_code |-> PackFormatOne(en, par, num),
   fields |-> [format |-> "FormatOne", error_number |-> en,
               is_parameter |-> par, number |-> num]]

\* The calls whose response code is packed from every choice of Format-Zero
\* field values and of Format-One field values, and the rejected calls.
InitPacked ==
  /\ outcome \in
       {PackedZero(en, ver, vend, sev) :
          en \in 0..127, ver \in BOOLEAN, vend \in BOOLEAN, sev \in BOOLEAN}
       \cup {PackedOne(en, par, num) :
               en \in 0..63, par \in BOOLEAN, num \in 0..15}
       \cup {Rejected(k) : k \in WrapperErrorKind}
  /\ error = NotYet
  /\ kind_result = NotYet
  /\ is_success_result = NotYet
  /\ fmt_result = NotYet

SpecPacked == InitPacked /\ [][Next]_vars

\* C8: a word packed from Format-Zero field values (not all zero) decodes to
\* FormatZero whose accessors return those values, and a word packed from
\* Format-One field values decodes to FormatOne whose accessors return those
\* values.
C8_RoundTrip ==
  Decoded =>
    /\ (outcome.fields.format = "FormatZero" /\ ~IsZero(Raw)) =>
         /\ Code.tag = "FormatZero"
         /\ FormatZero_error_number(Code.rc) = outcome.fields.error_number
         /\ FormatZero_format_selector(Code.rc) = FALSE
         /\ FormatZero_version(Code.rc) = outcome.fields.version
         /\ FormatZero_tcg_vendor_indicator(Code.rc)
              = outcome.fields.vendor_indicator
         /\ FormatZero_severity(Code.rc) = outcome.fields.severity
    /\ outcome.fields.format = "FormatOne" =>
         /\ Code.tag = "FormatOne"
         /\ FormatOne_error_number(Code.rc) = outcome.fields.error_number
         /\ FormatOne_parameter(Code.rc) = outcome.fields.is_parameter
         /\ FormatOne_format_selector(Code.rc) = TRUE
         /\ FormatOne_number(Code.rc) = outcome.fields.number

\* The word packed from error_number 85, version set, vendor clear,
\* severity set was decoded as FormatZero, and its version reads as set.
C8_Witness ==
  /\ Decoded /\ outcome = PackedZero(85, TRUE, FALSE, TRUE)
  /\ Code.tag = "FormatZero"
  /\ FormatZero_version(Code.rc)

(***************************************************************************)
(* C9                                                                      *)
(***************************************************************************)
\* C9: Error::is_success is true exactly for Tss2Error(Success): false for
\* every WrapperError and for every Tss2Error of a FormatZero or FormatOne
\* code.  The display of a Tss2Error is the display of the code it wraps, and
\* the display of a WrapperError is the fixed sentence of its kind.
C9_ErrorModel ==
  /\ IsSuccessReturned =>
       /\ is_success_result.val <=> (error = Tss2Error(Success))
       /\ error.tag = "WrapperError" => is_success_result.val = FALSE
       /\ (Decoded /\ Code.tag \in {"FormatZero", "FormatOne"}) =>
            is_success_result.val = FALSE
  /\ FmtReturned =>
       /\ Decoded => fmt_result.val = fmt(Code)
       /\ error.tag = "WrapperError" =>
            /\ error.kind = "WrongParamSize" =>
                 fmt_result.val = "parameter provided is of the wrong size"
            /\ error.kind = "ParamsMissing" =>
                 fmt_result.val = "some of the required parameters were not provided"
            /\ error.kind = "InconsistentParams" =>
                 fmt_result.val = "the provided parameters have inconsistent values or variants"

\* A ParamsMissing WrapperError answered is_success and was displayed.
C9_Witness ==
  /\ error = WrapperError("ParamsMissing")
  /\ is_success_result = Returned(FALSE)
  /\ fmt_result = Returned("some of the required parameters were not provided")

(***************************************************************************)
(* C10                                                                     *)
(***************************************************************************)
RenderedKinds ==
  {"Success", "TpmVendorSpecific"}
    \cup DOMAIN FormatZeroSentence \cup DOMAIN FormatOneSentence

\* C10: decoding, kind() and the display of every raw code complete: the
\* unwrap in the renderer never meets None, every kind that kind() returns
\* has an arm in the renderer, and a string comes out.
C10_RenderingTotal ==
  /\ KindReturned =>
       \/ kind_result.val = None
       \/ kind_result.val.tag = "Some" /\ kind_result.val.val \in RenderedKinds
  /\ FmtReturned =>
       /\ fmt_result.val \notin {UnwrapPanic, NoMatchArm}
       /\ Len(fmt_result.val) > 0
       /\ Decoded => get_associated_number_message(Code) # SubOverflow

\* The all-ones word (Format-One, error_number 63, not in the table) was
\* classified as None and still displayed.
C10_Witness ==
  /\ Decoded /\ (\A i \in WordBits : Raw[i])
  /\ kind_result = Returned(None)
  /\ FmtReturned

(***************************************************************************)
(* C11                                                                     *)
(***************************************************************************)
\* One decoded Format-Zero code, vendor_indicator clear, for every
\* error_number under each severity (the version bit is set, which keeps the
\* word of error number 0 apart from the zero word).
ZeroCodes ==
  {FormatZero(Low(256 + n + 2048 * s)) : n \in 0..127, s \in {0, 1}}

\* A Format-Zero code of a named kind was displayed.
NamedZeroDisplayed ==
  FormatZeroCode /\ ~Raw[10] /\ FmtReturned /\ kind(Code) # None

\* C11 as stated: the sentence displayed for a named Format-Zero kind is the
\* sentence of no other named Format-Zero kind.
C11_AsStated ==
  NamedZeroDisplayed =>
    \A c2 \in ZeroCodes :
      (kind(c2) # None /\ kind(c2) # kind(Code)) => fmt(c2) # fmt_result.val

\* C11, amended: every named Format-Zero kind is displayed as one fixed
\* sentence of its own, which is the sentence of no other named Format-Zero
\* kind, except that Private and Hmac are both displayed as "not currently
\* used".
C11_DistinctSentences ==
  NamedZeroDisplayed =>
    /\ \A c2 \in ZeroCodes :
         /\ kind(c2) = kind(Code) => fmt(c2) = fmt_result.val
         /\ (/\ kind(c2) # None
             /\ kind(c2) # kind(Code)
             /\ {kind(c2).val, kind(Code).val} # {"Private", "Hmac"})
              => fmt(c2) # fmt_result.val
    /\ kind(Code).val \in {"Private", "Hmac"} =>
         fmt_result.val = "not currently used"

\* 0x00B (Private) was displayed, with the sentence it shares with Hmac.
C11_Witness ==
  /\ FormatZeroCode /\ Raw = Low(11)
  /\ kind(Code) = Some("Private")
  /\ fmt_result = Returned("not currently used")

(***************************************************************************)
(* C12                                                                     *)
(***************************************************************************)
Namespaces == {"warning", "error", "one"}

Entry(namespace, n) ==
  CASE namespace = "warning" -> WarningKind(n)
    [] namespace = "error" -> ErrorKind(n)
    [] namespace = "one" -> FormatOneKind(n)

\* The namespace and the error_number under which a nonzero code without
\* vendor_indicator is looked up.
NamespaceOf(w) ==
  IF w[7] THEN "one" ELSE IF w[11] THEN "warning" ELSE "error"
NumberOf(w) == IF w[7] THEN Value(w, 0, 6) ELSE Value(w, 0, 7)

\* C12: the kinds of the warning table, of the error table and of the
\* Format-One table are pairwise disjoint, none of them is Success or
\* TpmVendorSpecific, and no table has one kind under two error_numbers; so
\* the kind returned for a code tells its encoding and namespace.
C12_NamespacesDisjoint ==
  (Decoded /\ KindReturned /\ kind_result.val # None) =>
    LET k == kind_result.val IN
    /\ k = Some("Success") <=> IsZero(Raw)
    /\ k = Some("TpmVendorSpecific") <=> (FormatZeroCode /\ Raw[10])
    /\ k.val \notin {"Success", "TpmVendorSpecific"} =>
         \A t \in Namespaces, n \in 0..127 :
           /\ Entry(t, n) # Some("Success")
           /\ Entry(t, n) # Some("TpmVendorSpecific")
           /\ Entry(t, n) = k => (t = NamespaceOf(Raw) /\ n = NumberOf(Raw))

\* 0x083 (Format-One, error_number 3) was classified as Hash, while number 3
\* is SessionMemory among the warnings and Sequence among the errors.
C12_Witness ==
  /\ FormatOneCode /\ Raw = Low(131)
  /\ kind_result = Returned(Some("Hash"))
  /\ Entry("warning", 3) = Some("SessionMemory")
  /\ Entry("error", 3) = Some("Sequence")

(***************************************************************************)
(* C13                                                                     *)
(***************************************************************************)
\* The error_numbers that are classified, among the Format-Zero codes with
\* vendor_indicator clear and severity set.
WarningNumbers ==
  {n \in 0..127 : kind(from_tss_rc(Low(2048 + n))) # None}

WarningClassified ==
  FormatZeroCode /\ ~Raw[10] /\ Raw[11] /\ KindReturned

\* C13 as stated: exactly 32 error_numbers of the warnings yield a kind other
\* than None.
C13_AsStated ==
  WarningClassified =>
    /\ Cardinality(WarningNumbers) = 32
    /\ kind_result.val # None <=> Value(Raw, 0, 7) \in WarningNumbers

\* C13, amended: exactly 28 error_numbers of the warnings yield a kind other
\* than None: 0x01-0x0A, 0x10-0x16, 0x18-0x1E and 0x20-0x23.
C13_WarningCount ==
  WarningClassified =>
    /\ Cardinality(WarningNumbers) = 28
    /\ WarningNumbers = (1..10) \cup (16..22) \cup (24..30) \cup (32..35)
    /\ kind_result.val # None <=> Value(Raw, 0, 7) \in WarningNumbers

\* 0x823, the last entry of the warnings, was classified as NvUnavailable.
C13_Witness ==
  /\ FormatZeroCode /\ Raw = Low(2083)
  /\ kind_result = Returned(Some("NvUnavailable"))

(***************************************************************************)
(* C14                                                                     *)
(***************************************************************************)
\* The nonzero words that agree with w on bits 0-7, 10 and 11, under every
\* value of bits 8 and 9 and every pattern of bits 12-31.
ZeroVariants(w) ==
  {v \in {[i \in WordBits |->
             IF i \in (0..7) \cup {10, 11} THEN w[i]
             ELSE IF i = 8 THEN b8
             ELSE IF i = 9 THEN b9
             ELSE i \in hp] :
            b8 \in BOOLEAN, b9 \in BOOLEAN, hp \in HighPatterns} : ~IsZero(v)}

\* The words that agree with w on bits 0-11, under every pattern of bits
\* 12-31.
OneVariants(w) ==
  {[i \in WordBits |-> IF i < 12 THEN w[i] ELSE i \in hp] : hp \in HighPatterns}

SameKindAndDisplay(w2) ==
  /\ KindReturned => kind(from_tss_rc(w2)) = kind_result.val
  /\ FmtReturned => fmt(from_tss_rc(w2)) = fmt_result.val

\* C14: a nonzero code with bit 7 clear has the kind and the display of every
\* nonzero code with bit 7 clear that agrees with it on bits 0-6, 10 and 11;
\* a code with bit 7 set has the kind and the display of every code that
\* agrees with it on bits 0-11; and a nonzero code whose bits 0-11 are all
\* clear is Format-Zero error number 0, of kind Initialize.
C14_DefinedFieldsOnly ==
  /\ FormatZeroCode => \A w2 \in ZeroVariants(Raw) : SameKindAndDisplay(w2)
  /\ FormatOneCode => \A w2 \in OneVariants(Raw) : SameKindAndDisplay(w2)
  /\ (Decoded /\ ~IsZero(Raw) /\ \A i \in 0..11 : ~Raw[i]) =>
       /\ Code.tag = "FormatZero"
       /\ error_number(Code) = 0
       /\ KindReturned => kind_result.val = Some("Initialize")

\* 0x00010000 was classified as Initialize and displayed.
C14_Witness ==
  /\ Decoded /\ Raw = Word(0, {16})
  /\ kind_result = Returned(Some("Initialize"))
  /\ fmt_result =
       Returned("TPM not initialized by TPM2_Startup or already initialized")

(***************************************************************************)
(* C15                                                                     *)
(***************************************************************************)
\* The words compared with w: w itself, the zero word, and w with any one of
\* its bits inverted.
ComparedWith(w) ==
  {w, Low(0)} \cup {[w EXCEPT ![j] = ~w[j]] : j \in WordBits}

\* Two decoded codes have the same variant and the same field values.
SameDecoded(c1, c2) ==
  /\ c1.tag = c2.tag
  /\ c1.tag = "FormatZero" =>
       /\ Value(c1.rc, 0, 7) = Value(c2.rc, 0, 7)
       /\ c1.rc[8] = c2.rc[8]
       /\ c1.rc[10] = c2.rc[10]
       /\ c1.rc[11] = c2.rc[11]
  /\ c1.tag = "FormatOne" =>
       /\ Value(c1.rc, 0, 6) = Value(c2.rc, 0, 6)
       /\ c1.rc[6] = c2.rc[6]
       /\ Value(c1.rc, 8, 4) = Value(c2.rc, 8, 4)

NeverEqualsWrapperError ==
  \A k \in WrapperErrorKind :
    ~Error_eq(error, local_error(k)) /\ ~Error_eq(local_error(k), error)

\* C15 as stated: two Tss2Error values built by from_tss_rc are equal when
\* their codes have the same variant and field values and unequal when the
\* variant or a field differs; a Tss2Error never equals a WrapperError.
C15_AsStated ==
  Decoded =>
    /\ \A w2 \in ComparedWith(Raw) :
         Error_eq(error, Error_from_tss_rc(w2))
           <=> SameDecoded(Code, from_tss_rc(w2))
    /\ NeverEqualsWrapperError

\* C15, amended: two Tss2Error values built by from_tss_rc are equal exactly
\* when their raw codes are the same word; so equal values have the same
\* variant and field values, and values whose variant or fields differ are
\* unequal; a Tss2Error never equals a WrapperError.
C15_RawEquality ==
  Decoded =>
    /\ \A w2 \in ComparedWith(Raw) :
         /\ Error_eq(error, Error_from_tss_rc(w2)) <=> (w2 = Raw)
         /\ Error_eq(error, Error_from_tss_rc(w2))
              => SameDecoded(Code, from_tss_rc(w2))
    /\ NeverEqualsWrapperError

\* 0x201 was decoded: it has the variant and the field values of 0x001 and
\* is not equal to it.
C15_Witness ==
  /\ Decoded /\ Raw = Low(513)
  /\ SameDecoded(Code, from_tss_rc(Low(1)))
  /\ ~Error_eq(error, Error_from_tss_rc(Low(1)))

=============================================================================
